---- MODULE Spec2Model ----
(***************************************************************************)
(* Model of the elliptic-curve gadgets of src/src/circuit/mont.rs:         *)
(* EdwardsPoint (conditionally_select, mul, interpret, double, add),       *)
(* MontgomeryPoint (into_edwards, add, double) and                         *)
(* fixed_base_multiplication, run against a test constraint system that    *)
(* records every allocated variable (name, witness) and every enforced     *)
(* constraint (name, A, B, C) in emission order.                           *)
(*                                                                         *)
(* The prime field Fr and the curve parameters are external to the file;   *)
(* they are modelled by a small prime field and a small curve that has the *)
(* same shape as Jubjub: a = -1 is a square, d is a non-square,            *)
(* -(A + 2) is a square, A^2 - 4 is a non-square, A^2 - 3 is a square and  *)
(* the curve order is 8 times an odd prime.                                *)
(***************************************************************************)
EXTENDS Integers, Sequences, FiniteSets, TLC

(***************************************************************************)
(* The field Fr.                                                           *)
(***************************************************************************)
P == 17

Fr == 0 .. (P - 1)

None == -1

FAdd(a, b) == (a + b) % P

FSub(a, b) == (a + P - b) % P

FMul(a, b) == (a * b) % P

FNeg(a) == (P - a) % P

FDouble(a) == (a + a) % P

FSquare(a) == (a * a) % P

InverseTable == [a \in 1 .. (P - 1) |-> CHOOSE b \in 1 .. (P - 1) : (a * b) % P = 1]

\* Field::inverse: None iff the operand is zero.
Inverse(a) == IF a = 0 THEN None ELSE InverseTable[a]

(***************************************************************************)
(* The curve parameters (JubjubParams).                                    *)
(***************************************************************************)
montgomery_a == 13

montgomery_2a == (2 * montgomery_a) % P

edwards_d == 14

scale == 6

(***************************************************************************)
(* The constraint system: aux variables are numbered from 1 in allocation  *)
(* order, 0 is the constant ONE.  A linear combination is a sequence of    *)
(* terms <<coefficient, variable>>.                                        *)
(***************************************************************************)
ONE == 0

EmptyCS == [vars |-> << >>, cons |-> << >>]

Path(ns, name) == IF ns = "" THEN name ELSE ns \o "/" \o name

\* ConstraintSystem::alloc with a witness closure that returned Ok(v).
Alloc(cs, name, v) == [cs EXCEPT !.vars = Append(@, [name |-> name, val |-> v])]

\* The handle of the variable allocated last.
LastVar(cs) == Len(cs.vars)

\* ConstraintSystem::enforce.
Enforce(cs, name, a, b, c) ==
    [cs EXCEPT !.cons = Append(@, [name |-> name, a |-> a, b |-> b, c |-> c])]

\* AllocatedNum::get_value.
Val(cs, v) == IF v = ONE THEN 1 ELSE cs.vars[v].val

RECURSIVE EvalFrom(_, _, _)
EvalFrom(vars, lc, i) ==
    IF i > Len(lc) THEN 0
    ELSE LET t == lc[i]
             x == IF t[2] = ONE THEN 1 ELSE vars[t[2]].val
         IN  (t[1] * x + EvalFrom(vars, lc, i + 1)) % P

\* The value of a linear combination under the witness.
EvalLC(vars, lc) == EvalFrom(vars, lc, 1)

\* One constraint A * B = C under the witness.
ConSat(vars, k) == FMul(EvalLC(vars, k.a), EvalLC(vars, k.b)) = EvalLC(vars, k.c)

\* TestConstraintSystem::is_satisfied.
IsSatisfied(cs) == \A i \in 1 .. Len(cs.cons) : ConSat(cs.vars, cs.cons[i])

\* TestConstraintSystem::which_is_unsatisfied: the first one in emission order.
WhichIsUnsatisfied(cs) ==
    IF IsSatisfied(cs) THEN "None"
    ELSE LET i == CHOOSE j \in 1 .. Len(cs.cons) :
                      /\ ~ConSat(cs.vars, cs.cons[j])
                      /\ \A h \in 1 .. (j - 1) : ConSat(cs.vars, cs.cons[h])
         IN  cs.cons[i].name

(***************************************************************************)
(* Boolean: an allocated bit (Is), its negation (Not) or a constant.       *)
(* `value` is what get_value() returns, `var` the allocated bit's handle.  *)
(***************************************************************************)
Bool(kind, var, value) == [kind |-> kind, var |-> var, value |-> value]

\* Boolean::lc(one, coeff).
BoolLC(b, coeff) ==
    CASE b.kind = "Constant" -> IF b.value THEN <<<<coeff, ONE>>>> ELSE << >>
      [] b.kind = "Is"       -> <<<<coeff, b.var>>>>
      [] b.kind = "Not"      -> <<<<coeff, ONE>>, <<FNeg(coeff), b.var>>>>

\* Boolean::not.
BoolNot(b) ==
    CASE b.kind = "Constant" -> Bool("Constant", b.var, ~b.value)
      [] b.kind = "Is"       -> Bool("Not", b.var, ~b.value)
      [] b.kind = "Not"      -> Bool("Is", b.var, ~b.value)

\* lc - other: every coefficient of other negated.
LCNeg(lc) == [i \in 1 .. Len(lc) |-> <<FNeg(lc[i][1]), lc[i][2]>>]

(***************************************************************************)
(* Results of a gadget call: the constraint system it leaves, the status   *)
(* ("Ok" or the SynthesisError) and the handles of the returned point.     *)
(***************************************************************************)
Ok(cs, x, y) == [cs |-> cs, status |-> "Ok", x |-> x, y |-> y]

Err(cs, e) == [cs |-> cs, status |-> e, x |-> 0, y |-> 0]

\* AllocatedNum::mul: "product num" and "multiplication constraint".
NumMul(cs, ns, a, b) ==
    LET c1 == Alloc(cs, Path(ns, "product num"), FMul(Val(cs, a), Val(cs, b)))
    IN  Enforce(c1, Path(ns, "multiplication constraint"),
                <<<<1, a>>>>, <<<<1, b>>>>, <<<<1, LastVar(c1)>>>>)

\* AllocatedNum::square: "squared num" and "squaring constraint".
NumSquare(cs, ns, a) ==
    LET c1 == Alloc(cs, Path(ns, "squared num"), FSquare(Val(cs, a)))
    IN  Enforce(c1, Path(ns, "squaring constraint"),
                <<<<1, a>>>>, <<<<1, a>>>>, <<<<1, LastVar(c1)>>>>)

(***************************************************************************)
(* EdwardsPoint::add.                                                      *)
(***************************************************************************)
\* EdwardsAddY3 that does not enforce "y3 computation".
EdwardsAddY3_NoConstraint(cs, ns, u, a, b, c, x3) ==
    LET t0 == FSub(FSub(Val(cs, u), Val(cs, a)), Val(cs, b))
        t1 == FSub(1, Val(cs, c))
    IN  IF Inverse(t1) = None THEN Err(cs, "DivisionByZero")
        ELSE LET c1 == Alloc(cs, Path(ns, "y3/num"), FMul(t0, Inverse(t1)))
             IN  Ok(c1, x3, LastVar(c1))

\* EdwardsAddY3 that fabricates y3 = 0 when 1 - C has no inverse.
EdwardsAddY3_Fabricate(cs, ns, u, a, b, c, x3) ==
    LET t0 == FSub(FSub(Val(cs, u), Val(cs, a)), Val(cs, b))
        t1 == FSub(1, Val(cs, c))
        c1 == Alloc(cs, Path(ns, "y3/num"),
                    IF Inverse(t1) = None THEN 0 ELSE FMul(t0, Inverse(t1)))
        y3 == LastVar(c1)
        c2 == Enforce(c1, Path(ns, "y3 computation"),
                      <<<<1, ONE>>, <<P - 1, c>>>>,
                      <<<<1, y3>>>>,
                      <<<<1, u>>, <<P - 1, a>>, <<P - 1, b>>>>)
    IN  Ok(c2, x3, y3)

EdwardsAddY3(cs, ns, u, a, b, c, x3) ==
    LET t0 == FSub(FSub(Val(cs, u), Val(cs, a)), Val(cs, b))
        t1 == FSub(1, Val(cs, c))
    IN  IF Inverse(t1) = None THEN Err(cs, "DivisionByZero")
        ELSE LET c1 == Alloc(cs, Path(ns, "y3/num"), FMul(t0, Inverse(t1)))
                 y3 == LastVar(c1)
                 c2 == Enforce(c1, Path(ns, "y3 computation"),
                               <<<<1, ONE>>, <<P - 1, c>>>>,
                               <<<<1, y3>>>>,
                               <<<<1, u>>, <<P - 1, a>>, <<P - 1, b>>>>)
             IN  Ok(c2, x3, y3)

\* EdwardsAddX3 with the witness of x3 divided by 1 - C (sub_assign for
\* add_assign).
EdwardsAddX3_SubAssign(cs, ns, u, a, b, c) ==
    LET t0 == FAdd(Val(cs, a), Val(cs, b))
        t1 == FSub(1, Val(cs, c))
    IN  IF Inverse(t1) = None THEN Err(cs, "DivisionByZero")
        ELSE LET c1 == Alloc(cs, Path(ns, "x3/num"), FMul(t0, Inverse(t1)))
                 x3 == LastVar(c1)
                 c2 == Enforce(c1, Path(ns, "x3 computation"),
                               <<<<1, ONE>>, <<1, c>>>>,
                               <<<<1, x3>>>>,
                               <<<<1, a>>, <<1, b>>>>)
             IN  EdwardsAddY3(c2, ns, u, a, b, c, x3)

EdwardsAddX3(cs, ns, u, a, b, c) ==
    LET t0 == FAdd(Val(cs, a), Val(cs, b))
        t1 == FAdd(1, Val(cs, c))
    IN  IF Inverse(t1) = None THEN Err(cs, "DivisionByZero")
        ELSE LET c1 == Alloc(cs, Path(ns, "x3/num"), FMul(t0, Inverse(t1)))
                 x3 == LastVar(c1)
                 c2 == Enforce(c1, Path(ns, "x3 computation"),
                               <<<<1, ONE>>, <<1, c>>>>,
                               <<<<1, x3>>>>,
                               <<<<1, a>>, <<1, b>>>>)
             IN  EdwardsAddY3(c2, ns, u, a, b, c, x3)

\* EdwardsAdd with B = x2 * x1 (self.x for self.y).
EdwardsAdd_WrongB(cs, ns, self, other) ==
    LET t0 == FAdd(Val(cs, self.x), Val(cs, self.y))
        t1 == FAdd(Val(cs, other.x), Val(cs, other.y))
        c1 == Alloc(cs, Path(ns, "U/num"), FMul(t0, t1))
        u  == LastVar(c1)
        c2 == Enforce(c1, Path(ns, "U computation"),
                      <<<<1, self.x>>, <<1, self.y>>>>,
                      <<<<1, other.x>>, <<1, other.y>>>>,
                      <<<<1, u>>>>)
        c3 == NumMul(c2, Path(ns, "A computation"), other.y, self.x)
        a  == LastVar(c3)
        c4 == NumMul(c3, Path(ns, "B computation"), other.x, self.x)
        b  == LastVar(c4)
        c5 == Alloc(c4, Path(ns, "C/num"),
                    FMul(FMul(Val(c4, a), Val(c4, b)), edwards_d))
        c  == LastVar(c5)
        c6 == Enforce(c5, Path(ns, "C computation"),
                      <<<<edwards_d, a>>>>, <<<<1, b>>>>, <<<<1, c>>>>)
    IN  EdwardsAddX3(c6, ns, u, a, b, c)

EdwardsAdd(cs, ns, self, other) ==
    LET t0 == FAdd(Val(cs, self.x), Val(cs, self.y))
        t1 == FAdd(Val(cs, other.x), Val(cs, other.y))
        c1 == Alloc(cs, Path(ns, "U/num"), FMul(t0, t1))
        u  == LastVar(c1)
        c2 == Enforce(c1, Path(ns, "U computation"),
                      <<<<1, self.x>>, <<1, self.y>>>>,
                      <<<<1, other.x>>, <<1, other.y>>>>,
                      <<<<1, u>>>>)
        c3 == NumMul(c2, Path(ns, "A computation"), other.y, self.x)
        a  == LastVar(c3)
        c4 == NumMul(c3, Path(ns, "B computation"), other.x, self.y)
        b  == LastVar(c4)
        c5 == Alloc(c4, Path(ns, "C/num"),
                    FMul(FMul(Val(c4, a), Val(c4, b)), edwards_d))
        c  == LastVar(c5)
        c6 == Enforce(c5, Path(ns, "C computation"),
                      <<<<edwards_d, a>>>>, <<<<1, b>>>>, <<<<1, c>>>>)
    IN  EdwardsAddX3(c6, ns, u, a, b, c)

\* EdwardsPoint::double.
EdwardsDouble(cs, ns, self) == EdwardsAdd(cs, ns, self, self)

Pt(x, y) == [x |-> x, y |-> y]

NonePoint == [x |-> None, y |-> None]

(***************************************************************************)
(* EdwardsPoint::conditionally_select.                                     *)
(***************************************************************************)
\* ConditionallySelect without the (1 - condition) term: y' is 0, not 1,
\* when the condition is false.
ConditionallySelect_NoOne(cs, ns, self, condition) ==
    LET c1 == Alloc(cs, Path(ns, "x'/num"),
                    IF condition.value THEN Val(cs, self.x) ELSE 0)
        x_prime == LastVar(c1)
        c2 == Enforce(c1, Path(ns, "x' computation"),
                      <<<<1, self.x>>>>,
                      BoolLC(condition, 1),
                      <<<<1, x_prime>>>>)
        c3 == Alloc(c2, Path(ns, "y'/num"),
                    IF condition.value THEN Val(cs, self.y) ELSE 0)
        y_prime == LastVar(c3)
        c4 == Enforce(c3, Path(ns, "y' computation"),
                      <<<<1, self.y>>>>,
                      BoolLC(condition, 1),
                      <<<<1, y_prime>>>>)
    IN  Ok(c4, x_prime, y_prime)

ConditionallySelect(cs, ns, self, condition) ==
    LET c1 == Alloc(cs, Path(ns, "x'/num"),
                    IF condition.value THEN Val(cs, self.x) ELSE 0)
        x_prime == LastVar(c1)
        c2 == Enforce(c1, Path(ns, "x' computation"),
                      <<<<1, self.x>>>>,
                      BoolLC(condition, 1),
                      <<<<1, x_prime>>>>)
        c3 == Alloc(c2, Path(ns, "y'/num"),
                    IF condition.value THEN Val(cs, self.y) ELSE 1)
        y_prime == LastVar(c3)
        c4 == Enforce(c3, Path(ns, "y' computation"),
                      <<<<1, self.y>>>>,
                      BoolLC(condition, 1),
                      <<<<1, y_prime>>>> \o LCNeg(BoolLC(BoolNot(condition), 1)))
    IN  Ok(c4, x_prime, y_prime)

(***************************************************************************)
(* EdwardsPoint::mul: the loop over the bits, i counted from 1 here and    *)
(* from 0 in the namespaces.                                               *)
(***************************************************************************)
\* MulLoop that doubles the selected (masked) base instead of curbase.
RECURSIVE MulLoop_DoubleMasked(_, _, _, _, _, _, _)
MulLoop_DoubleMasked(cs, ns, self, by, i, curbase, result) ==
    IF i > Len(by)
    THEN IF result = NonePoint THEN Err(cs, "AssignmentMissing")
         ELSE Ok(cs, result.x, result.y)
    ELSE LET n == ToString(i - 1)
             d == IF curbase = NonePoint THEN Ok(cs, self.x, self.y)
                  ELSE EdwardsDouble(cs, Path(ns, "doubling " \o n), curbase)
         IN  IF d.status # "Ok" THEN d
             ELSE LET s == ConditionallySelect(d.cs, Path(ns, "selection " \o n),
                                               Pt(d.x, d.y), by[i])
                  IN  IF s.status # "Ok" THEN s
                      ELSE LET a == IF result = NonePoint THEN s
                                    ELSE EdwardsAdd(s.cs, Path(ns, "addition " \o n),
                                                    result, Pt(s.x, s.y))
                           IN  IF a.status # "Ok" THEN a
                               ELSE MulLoop_DoubleMasked(a.cs, ns, self, by, i + 1,
                                                         Pt(s.x, s.y), Pt(a.x, a.y))

\* MulLoop that doubles the base at the end of every step, the last included.
RECURSIVE MulLoop_DoubleAtEnd(_, _, _, _, _, _, _)
MulLoop_DoubleAtEnd(cs, ns, self, by, i, curbase, result) ==
    IF i > Len(by)
    THEN IF result = NonePoint THEN Err(cs, "AssignmentMissing")
         ELSE Ok(cs, result.x, result.y)
    ELSE LET n == ToString(i - 1)
             base == IF curbase = NonePoint THEN self ELSE curbase
             s == ConditionallySelect(cs, Path(ns, "selection " \o n), base, by[i])
         IN  IF s.status # "Ok" THEN s
             ELSE LET a == IF result = NonePoint THEN s
                           ELSE EdwardsAdd(s.cs, Path(ns, "addition " \o n),
                                           result, Pt(s.x, s.y))
                  IN  IF a.status # "Ok" THEN a
                      ELSE LET d == EdwardsDouble(a.cs,
                                                  Path(ns, "doubling " \o ToString(i)),
                                                  base)
                           IN  IF d.status # "Ok" THEN d
                               ELSE MulLoop_DoubleAtEnd(d.cs, ns, self, by, i + 1,
                                                        Pt(d.x, d.y), Pt(a.x, a.y))

RECURSIVE MulLoop(_, _, _, _, _, _, _)
MulLoop(cs, ns, self, by, i, curbase, result) ==
    IF i > Len(by)
    THEN IF result = NonePoint THEN Err(cs, "AssignmentMissing")
         ELSE Ok(cs, result.x, result.y)
    ELSE LET n == ToString(i - 1)
             d == IF curbase = NonePoint THEN Ok(cs, self.x, self.y)
                  ELSE EdwardsDouble(cs, Path(ns, "doubling " \o n), curbase)
         IN  IF d.status # "Ok" THEN d
             ELSE LET s == ConditionallySelect(d.cs, Path(ns, "selection " \o n),
                                               Pt(d.x, d.y), by[i])
                  IN  IF s.status # "Ok" THEN s
                      ELSE LET a == IF result = NonePoint THEN s
                                    ELSE EdwardsAdd(s.cs, Path(ns, "addition " \o n),
                                                    result, Pt(s.x, s.y))
                           IN  IF a.status # "Ok" THEN a
                               ELSE MulLoop(a.cs, ns, self, by, i + 1,
                                            Pt(d.x, d.y), Pt(a.x, a.y))

\* EdwardsMul that returns the base itself for an empty bit sequence.
EdwardsMul_EmptyIsBase(cs, ns, self, by) ==
    IF Len(by) = 0 THEN Ok(cs, self.x, self.y)
    ELSE MulLoop(cs, ns, self, by, 1, NonePoint, NonePoint)

EdwardsMul(cs, ns, self, by) == MulLoop(cs, ns, self, by, 1, NonePoint, NonePoint)

(***************************************************************************)
(* EdwardsPoint::interpret.                                                *)
(***************************************************************************)
\* Interpret with + x^2 in the on curve check (the curve with a = 1).
Interpret_PlusX2(cs, ns, x, y) ==
    LET c1 == NumSquare(cs, Path(ns, "x^2"), x)
        x2 == LastVar(c1)
        c2 == NumSquare(c1, Path(ns, "y^2"), y)
        y2 == LastVar(c2)
        c3 == NumMul(c2, Path(ns, "x^2 y^2"), x2, y2)
        x2y2 == LastVar(c3)
        c4 == Enforce(c3, Path(ns, "on curve check"),
                      <<<<1, x2>>, <<1, y2>>>>,
                      <<<<1, ONE>>>>,
                      <<<<1, ONE>>, <<edwards_d, x2y2>>>>)
    IN  Ok(c4, x, y)

\* Interpret without the on curve check.
Interpret_Unchecked(cs, ns, x, y) == Ok(cs, x, y)

Interpret(cs, ns, x, y) ==
    LET c1 == NumSquare(cs, Path(ns, "x^2"), x)
        x2 == LastVar(c1)
        c2 == NumSquare(c1, Path(ns, "y^2"), y)
        y2 == LastVar(c2)
        c3 == NumMul(c2, Path(ns, "x^2 y^2"), x2, y2)
        x2y2 == LastVar(c3)
        c4 == Enforce(c3, Path(ns, "on curve check"),
                      <<<<P - 1, x2>>, <<1, y2>>>>,
                      <<<<1, ONE>>>>,
                      <<<<1, ONE>>, <<edwards_d, x2y2>>>>)
    IN  Ok(c4, x, y)

(***************************************************************************)
(* MontgomeryPoint::into_edwards.                                          *)
(***************************************************************************)
\* IntoEdwardsV that does not enforce "v computation".
IntoEdwardsV_NoConstraint(cs, ns, self, u) ==
    LET t0 == FSub(Val(cs, self.x), 1)
        t1 == FAdd(Val(cs, self.x), 1)
    IN  IF Inverse(t1) = None THEN Err(cs, "DivisionByZero")
        ELSE LET c1 == Alloc(cs, Path(ns, "v/num"), FMul(t0, Inverse(t1)))
             IN  Ok(c1, u, LastVar(c1))

\* IntoEdwardsV that enforces "v computation" before it allocates v.
IntoEdwardsV_EnforceFirst(cs, ns, self, u) ==
    LET t0 == FSub(Val(cs, self.x), 1)
        t1 == FAdd(Val(cs, self.x), 1)
        v  == LastVar(cs) + 1
        c1 == Enforce(cs, Path(ns, "v computation"),
                      <<<<1, self.x>>, <<1, ONE>>>>,
                      <<<<1, v>>>>,
                      <<<<1, self.x>>, <<P - 1, ONE>>>>)
    IN  IF Inverse(t1) = None THEN Err(c1, "DivisionByZero")
        ELSE Ok(Alloc(c1, Path(ns, "v/num"), FMul(t0, Inverse(t1))), u, v)

IntoEdwardsV(cs, ns, self, u) ==
    LET t0 == FSub(Val(cs, self.x), 1)
        t1 == FAdd(Val(cs, self.x), 1)
    IN  IF Inverse(t1) = None THEN Err(cs, "DivisionByZero")
        ELSE LET c1 == Alloc(cs, Path(ns, "v/num"), FMul(t0, Inverse(t1)))
                 v  == LastVar(c1)
                 c2 == Enforce(c1, Path(ns, "v computation"),
                               <<<<1, self.x>>, <<1, ONE>>>>,
                               <<<<1, v>>>>,
                               <<<<1, self.x>>, <<P - 1, ONE>>>>)
             IN  Ok(c2, u, v)

\* IntoEdwards without the scale factor: u = x / y.
IntoEdwards_NoScale(cs, ns, self) ==
    LET t0 == Val(cs, self.x)
        invy == Inverse(Val(cs, self.y))
    IN  IF invy = None THEN Err(cs, "DivisionByZero")
        ELSE LET c1 == Alloc(cs, Path(ns, "u/num"), FMul(t0, invy))
                 u  == LastVar(c1)
                 c2 == Enforce(c1, Path(ns, "u computation"),
                               <<<<1, self.y>>>>,
                               <<<<1, u>>>>,
                               <<<<1, self.x>>>>)
             IN  IntoEdwardsV(c2, ns, self, u)

IntoEdwards(cs, ns, self) ==
    LET t0 == FMul(Val(cs, self.x), scale)
        invy == Inverse(Val(cs, self.y))
    IN  IF invy = None THEN Err(cs, "DivisionByZero")
        ELSE LET c1 == Alloc(cs, Path(ns, "u/num"), FMul(t0, invy))
                 u  == LastVar(c1)
                 c2 == Enforce(c1, Path(ns, "u computation"),
                               <<<<1, self.y>>>>,
                               <<<<1, u>>>>,
                               <<<<scale, self.x>>>>)
             IN  IntoEdwardsV(c2, ns, self, u)

(***************************************************************************)
(* MontgomeryPoint::add and MontgomeryPoint::double.  The two share the    *)
(* text that computes xprime and yprime from lambda, with other = self in  *)
(* double.                                                                 *)
(***************************************************************************)
\* MontgomeryAddTail with yprime = y + lambda (x' - x), the negation left out.
MontgomeryAddTail_NoNegate(cs, ns, self, other, lambda) ==
    LET l  == Val(cs, lambda)
        c1 == Alloc(cs, Path(ns, "xprime/num"),
                    FSub(FSub(FSub(FSquare(l), montgomery_a), Val(cs, self.x)),
                         Val(cs, other.x)))
        xprime == LastVar(c1)
        c2 == Enforce(c1, Path(ns, "evaluate xprime"),
                      <<<<1, lambda>>>>,
                      <<<<1, lambda>>>>,
                      <<<<montgomery_a, ONE>>, <<1, self.x>>, <<1, other.x>>,
                        <<1, xprime>>>>)
        c3 == Alloc(c2, Path(ns, "yprime/num"),
                    FAdd(FMul(FSub(Val(c2, xprime), Val(cs, self.x)), l),
                         Val(cs, self.y)))
        yprime == LastVar(c3)
        c4 == Enforce(c3, Path(ns, "evaluate yprime"),
                      <<<<1, self.x>>, <<P - 1, xprime>>>>,
                      <<<<1, lambda>>>>,
                      <<<<1, yprime>>, <<1, self.y>>>>)
    IN  Ok(c4, xprime, yprime)

\* MontgomeryAddTail that enforces "evaluate yprime" before "evaluate xprime".
MontgomeryAddTail_YprimeFirst(cs, ns, self, other, lambda) ==
    LET l  == Val(cs, lambda)
        c1 == Alloc(cs, Path(ns, "xprime/num"),
                    FSub(FSub(FSub(FSquare(l), montgomery_a), Val(cs, self.x)),
                         Val(cs, other.x)))
        xprime == LastVar(c1)
        c2 == Alloc(c1, Path(ns, "yprime/num"),
                    FNeg(FAdd(FMul(FSub(Val(c1, xprime), Val(cs, self.x)), l),
                              Val(cs, self.y))))
        yprime == LastVar(c2)
        c3 == Enforce(c2, Path(ns, "evaluate yprime"),
                      <<<<1, self.x>>, <<P - 1, xprime>>>>,
                      <<<<1, lambda>>>>,
                      <<<<1, yprime>>, <<1, self.y>>>>)
        c4 == Enforce(c3, Path(ns, "evaluate xprime"),
                      <<<<1, lambda>>>>,
                      <<<<1, lambda>>>>,
                      <<<<montgomery_a, ONE>>, <<1, self.x>>, <<1, other.x>>,
                        <<1, xprime>>>>)
    IN  Ok(c4, xprime, yprime)

MontgomeryAddTail(cs, ns, self, other, lambda) ==
    LET l  == Val(cs, lambda)
        c1 == Alloc(cs, Path(ns, "xprime/num"),
                    FSub(FSub(FSub(FSquare(l), montgomery_a), Val(cs, self.x)),
                         Val(cs, other.x)))
        xprime == LastVar(c1)
        c2 == Enforce(c1, Path(ns, "evaluate xprime"),
                      <<<<1, lambda>>>>,
                      <<<<1, lambda>>>>,
                      <<<<montgomery_a, ONE>>, <<1, self.x>>, <<1, other.x>>,
                        <<1, xprime>>>>)
        c3 == Alloc(c2, Path(ns, "yprime/num"),
                    FNeg(FAdd(FMul(FSub(Val(c2, xprime), Val(cs, self.x)), l),
                              Val(cs, self.y))))
        yprime == LastVar(c3)
        c4 == Enforce(c3, Path(ns, "evaluate yprime"),
                      <<<<1, self.x>>, <<P - 1, xprime>>>>,
                      <<<<1, lambda>>>>,
                      <<<<1, yprime>>, <<1, self.y>>>>)
    IN  Ok(c4, xprime, yprime)

MontgomeryAdd(cs, ns, self, other) ==
    LET n == FSub(Val(cs, other.y), Val(cs, self.y))
        d == FSub(Val(cs, other.x), Val(cs, self.x))
    IN  IF Inverse(d) = None THEN Err(cs, "DivisionByZero")
        ELSE LET c1 == Alloc(cs, Path(ns, "lambda/num"), FMul(n, Inverse(d)))
                 lambda == LastVar(c1)
                 c2 == Enforce(c1, Path(ns, "evaluate lambda"),
                               <<<<1, other.x>>, <<P - 1, self.x>>>>,
                               <<<<1, lambda>>>>,
                               <<<<1, other.y>>, <<P - 1, self.y>>>>)
             IN  MontgomeryAddTail(c2, ns, self, other, lambda)

MontgomeryDouble(cs, ns, self) ==
    LET c0 == NumSquare(cs, ns, self.x)
        xx == LastVar(c0)
        t0 == FAdd(FAdd(FAdd(FDouble(Val(c0, xx)), Val(c0, xx)),
                        FMul(Val(cs, self.x), montgomery_2a)), 1)
        t1 == FDouble(Val(cs, self.y))
    IN  IF Inverse(t1) = None THEN Err(c0, "DivisionByZero")
        ELSE LET c1 == Alloc(c0, Path(ns, "lambda/num"), FMul(t0, Inverse(t1)))
                 lambda == LastVar(c1)
                 c2 == Enforce(c1, Path(ns, "evaluate lambda"),
                               <<<<1, self.y>>, <<1, self.y>>>>,
                               <<<<1, lambda>>>>,
                               <<<<1, xx>>, <<1, xx>>, <<1, xx>>,
                                 <<montgomery_2a, self.x>>, <<1, ONE>>>>)
             IN  MontgomeryAddTail(c2, ns, self, self, lambda)

(***************************************************************************)
(* The reference (off-circuit) group law on coordinate pairs <<x, y>>,     *)
(* and the window tables of the fixed generators.                          *)
(***************************************************************************)
FrPairs == Fr \X Fr

\* a / b for b # 0.
FDiv(a, b) == CHOOSE q \in Fr : FMul(q, b) = a

\* edwards::Point::add in affine form.
RefEdwardsAddFn[p \in FrPairs, q \in FrPairs] ==
    LET c == FMul(edwards_d, FMul(FMul(p[1], q[1]), FMul(p[2], q[2])))
    IN  <<FDiv(FAdd(FMul(p[1], q[2]), FMul(p[2], q[1])), FAdd(1, c)),
          FDiv(FAdd(FMul(p[2], q[2]), FMul(p[1], q[1])), FSub(1, c))>>

RefEdwardsAdd(p, q) == RefEdwardsAddFn[p, q]

\* edwards::Point::mul: s * p by double-and-add from the most significant bit.
RefEdwardsMulFn[s \in Nat, p \in FrPairs] ==
    IF s = 0 THEN <<0, 1>>
    ELSE LET h == RefEdwardsMulFn[s \div 2, p]
             d == RefEdwardsAddFn[h, h]
         IN  IF s % 2 = 1 THEN RefEdwardsAddFn[d, p] ELSE d

RefEdwardsMul(s, p) == RefEdwardsMulFn[s, p]

\* The number of 3-bit window tables of one generator.
NumWindows == 2

\* The longest bit sequence EdwardsPoint::mul is called with.
MaxBits == 3

\* FixedGenerators: one generator of the prime-order subgroup and one of
\* the whole group.
FixedGenerators == {<<5, 13>>, <<3, 2>>}

\* 2^(3 * i) * g
WindowBaseFn[g \in FrPairs, i \in Nat] ==
    IF i = 0 THEN g ELSE RefEdwardsMulFn[8, WindowBaseFn[g, i - 1]]

WindowBase(g, i) == WindowBaseFn[g, i]

\* params.circuit_generators(base): table i (from 1) holds c * (2^(3(i-1)) * base)
\* at c = 0 .. 7.
CircuitGeneratorTables ==
    [g \in FixedGenerators |->
        [i \in 1 .. NumWindows |->
            [c \in 0 .. 7 |-> RefEdwardsMul(c, WindowBase(g, i - 1))]]]

circuit_generators(base) == CircuitGeneratorTables[base]

(***************************************************************************)
(* lookup3_xy: x and y are allocated with the table entry the three bits   *)
(* select; precomp = bits[1] AND bits[2]; the two lookup constraints state *)
(* the entry as a multilinear polynomial in the bits.                      *)
(***************************************************************************)
MaskBit(m, i) == (m \div (2 ^ i)) % 2

SubMask(t, m) == \A i \in 0 .. 2 : MaskBit(t, i) <= MaskBit(m, i)

PopCount(m) == MaskBit(m, 0) + MaskBit(m, 1) + MaskBit(m, 2)

RECURSIVE SynthFrom(_, _, _, _)
SynthFrom(window, k, m, t) ==
    IF t > 7 THEN 0
    ELSE LET term == IF SubMask(t, m)
                     THEN IF (PopCount(m) - PopCount(t)) % 2 = 0
                          THEN window[t][k] ELSE FNeg(window[t][k])
                     ELSE 0
         IN  (term + SynthFrom(window, k, m, t + 1)) % P

\* synth: the coefficient of the monomial m of coordinate k.
Synth(window, k, m) == SynthFrom(window, k, m, 0)

LookupLC(window, k, m0, bits, precomp) ==
    <<<<Synth(window, k, m0), ONE>>>>
        \o BoolLC(bits[2], Synth(window, k, m0 + 2))
        \o BoolLC(bits[3], Synth(window, k, m0 + 4))
        \o <<<<Synth(window, k, m0 + 6), precomp>>>>

Lookup3XY(cs, ns, bits, window) ==
    LET i  == (IF bits[1].value THEN 1 ELSE 0) + (IF bits[2].value THEN 2 ELSE 0)
                  + (IF bits[3].value THEN 4 ELSE 0)
        c1 == Alloc(cs, Path(ns, "x/num"), window[i][1])
        x  == LastVar(c1)
        c2 == Alloc(c1, Path(ns, "y/num"), window[i][2])
        y  == LastVar(c2)
        c3 == Alloc(c2, Path(ns, "precomp/and result"),
                    IF bits[2].value /\ bits[3].value THEN 1 ELSE 0)
        precomp == LastVar(c3)
        c4 == Enforce(c3, Path(ns, "precomp/and constraint"),
                      BoolLC(bits[2], 1), BoolLC(bits[3], 1), <<<<1, precomp>>>>)
        c5 == Enforce(c4, Path(ns, "x-coordinate lookup"),
                      LookupLC(window, 1, 1, bits, precomp),
                      BoolLC(bits[1], 1),
                      <<<<1, x>>>> \o LCNeg(LookupLC(window, 1, 0, bits, precomp)))
        c6 == Enforce(c5, Path(ns, "y-coordinate lookup"),
                      LookupLC(window, 2, 1, bits, precomp),
                      BoolLC(bits[1], 1),
                      <<<<1, y>>>> \o LCNeg(LookupLC(window, 2, 0, bits, precomp)))
    IN  Ok(c6, x, y)

(***************************************************************************)
(* fixed_base_multiplication: by.chunks(3) zipped with the window tables,  *)
(* i counted from 1 here and from 0 in the namespaces.                     *)
(***************************************************************************)
Min(a, b) == IF a <= b THEN a ELSE b

\* FixedLoop that looks every chunk up in the first window table.
RECURSIVE FixedLoop_FirstWindow(_, _, _, _, _, _)
FixedLoop_FirstWindow(cs, ns, by, windows, i, result) ==
    IF i > Min((Len(by) + 2) \div 3, Len(windows))
    THEN IF result = NonePoint THEN Err(cs, "AssignmentMissing")
         ELSE Ok(cs, result.x, result.y)
    ELSE LET n == ToString(i - 1)
             chunk == SubSeq(by, 3 * i - 2, Min(3 * i, Len(by)))
             l == Lookup3XY(cs, Path(ns, "window table lookup " \o n), chunk,
                            windows[1])
         IN  IF l.status # "Ok" THEN l
             ELSE LET a == IF result = NonePoint THEN l
                           ELSE EdwardsAdd(l.cs, Path(ns, "addition " \o n),
                                           result, Pt(l.x, l.y))
                  IN  IF a.status # "Ok" THEN a
                      ELSE FixedLoop_FirstWindow(a.cs, ns, by, windows, i + 1,
                                                 Pt(a.x, a.y))

\* FixedLoop that adds each looked-up point to itself, not to the result.
RECURSIVE FixedLoop_AddSelf(_, _, _, _, _, _)
FixedLoop_AddSelf(cs, ns, by, windows, i, result) ==
    IF i > Min((Len(by) + 2) \div 3, Len(windows))
    THEN IF result = NonePoint THEN Err(cs, "AssignmentMissing")
         ELSE Ok(cs, result.x, result.y)
    ELSE LET n == ToString(i - 1)
             chunk == SubSeq(by, 3 * i - 2, Min(3 * i, Len(by)))
             l == Lookup3XY(cs, Path(ns, "window table lookup " \o n), chunk,
                            windows[i])
         IN  IF l.status # "Ok" THEN l
             ELSE LET a == IF result = NonePoint THEN l
                           ELSE EdwardsAdd(l.cs, Path(ns, "addition " \o n),
                                           Pt(l.x, l.y), Pt(l.x, l.y))
                  IN  IF a.status # "Ok" THEN a
                      ELSE FixedLoop_AddSelf(a.cs, ns, by, windows, i + 1,
                                             Pt(a.x, a.y))

\* FixedLoop that goes through every chunk and looks the surplus chunks up in
\* the last window table.
RECURSIVE FixedLoop_ReuseLastWindow(_, _, _, _, _, _)
FixedLoop_ReuseLastWindow(cs, ns, by, windows, i, result) ==
    IF i > (Len(by) + 2) \div 3
    THEN IF result = NonePoint THEN Err(cs, "AssignmentMissing")
         ELSE Ok(cs, result.x, result.y)
    ELSE LET n == ToString(i - 1)
             chunk == SubSeq(by, 3 * i - 2, Min(3 * i, Len(by)))
             l == Lookup3XY(cs, Path(ns, "window table lookup " \o n), chunk,
                            windows[Min(i, Len(windows))])
         IN  IF l.status # "Ok" THEN l
             ELSE LET a == IF result = NonePoint THEN l
                           ELSE EdwardsAdd(l.cs, Path(ns, "addition " \o n),
                                           result, Pt(l.x, l.y))
                  IN  IF a.status # "Ok" THEN a
                      ELSE FixedLoop_ReuseLastWindow(a.cs, ns, by, windows, i + 1,
                                                     Pt(a.x, a.y))

RECURSIVE FixedLoop(_, _, _, _, _, _)
FixedLoop(cs, ns, by, windows, i, result) ==
    IF i > Min((Len(by) + 2) \div 3, Len(windows))
    THEN IF result = NonePoint THEN Err(cs, "AssignmentMissing")
         ELSE Ok(cs, result.x, result.y)
    ELSE LET n == ToString(i - 1)
             chunk == SubSeq(by, 3 * i - 2, Min(3 * i, Len(by)))
             l == Lookup3XY(cs, Path(ns, "window table lookup " \o n), chunk,
                            windows[i])
         IN  IF l.status # "Ok" THEN l
             ELSE LET a == IF result = NonePoint THEN l
                           ELSE EdwardsAdd(l.cs, Path(ns, "addition " \o n),
                                           result, Pt(l.x, l.y))
                  IN  IF a.status # "Ok" THEN a
                      ELSE FixedLoop(a.cs, ns, by, windows, i + 1, Pt(a.x, a.y))

\* FixedBaseMultiplication that goes through the whole chunks first and checks
\* the length after the loop.
FixedBaseMultiplication_AssertAfter(cs, ns, base, by) ==
    LET r == FixedLoop(cs, ns, SubSeq(by, 1, 3 * (Len(by) \div 3)),
                       circuit_generators(base), 1, NonePoint)
    IN  IF Len(by) % 3 # 0 THEN Err(r.cs, "AssertionFailed") ELSE r

FixedBaseMultiplication(cs, ns, base, by) ==
    IF Len(by) % 3 # 0 THEN Err(cs, "AssertionFailed")
    ELSE FixedLoop(cs, ns, by, circuit_generators(base), 1, NonePoint)

(***************************************************************************)
(* The test harness.  A run is one test case: a constraint system with the *)
(* inputs allocated as the tests allocate them, then one gadget call.      *)
(* inp.by describes the Booleans of the call: kind and get_value().        *)
(***************************************************************************)
\* saved: the name and the value a test reads with cs.get before it overwrites
\* the variable with cs.set.
VARIABLES pc, inp, cs, res, saved

vars == <<pc, inp, cs, res, saved>>

OnEdwards(x, y) ==
    FAdd(FNeg(FSquare(x)), FSquare(y))
        = FAdd(1, FMul(edwards_d, FMul(FSquare(x), FSquare(y))))

OnMontgomery(x, y) ==
    FSquare(y) = FAdd(FAdd(FMul(FSquare(x), x), FMul(montgomery_a, FSquare(x))), x)

EdwardsPoints == {p \in FrPairs : OnEdwards(p[1], p[2])}

MontgomeryPoints == {p \in FrPairs : OnMontgomery(p[1], p[2])}

BoolKinds == {"Is", "Not", "Constant"}

AnyBools == [kind : BoolKinds, value : BOOLEAN]

AllocatedBools == [kind : {"Is"}, value : BOOLEAN]

BoolSeqs(S, lens) == UNION {[1 .. n -> S] : n \in lens}

Inp(call, p1, p2, by, base) ==
    [call |-> call, p1 |-> p1, p2 |-> p2, by |-> by, base |-> base]

NoPair == <<0, 0>>

\* AllocatedNum::alloc of two coordinates in the test's namespaces.
AllocPoint(c, nx, ny, p) ==
    Alloc(Alloc(c, Path(nx, "num"), p[1]), Path(ny, "num"), p[2])

\* AllocatedBit::alloc for every Boolean that is not a constant.
RECURSIVE AllocBools(_, _, _, _)
AllocBools(c, by, k, single) ==
    IF k > Len(by) THEN c
    ELSE IF by[k].kind = "Constant" THEN AllocBools(c, by, k + 1, single)
    ELSE LET ns == IF single THEN "condition" ELSE "scalar bit " \o ToString(k - 1)
             raw == IF by[k].kind = "Not" THEN ~by[k].value ELSE by[k].value
             c1 == Alloc(c, Path(ns, "boolean"), IF raw THEN 1 ELSE 0)
             v  == LastVar(c1)
             c2 == Enforce(c1, Path(ns, "boolean constraint"),
                           <<<<1, ONE>>, <<P - 1, v>>>>, <<<<1, v>>>>, << >>)
         IN  AllocBools(c2, by, k + 1, single)

\* The Booleans handed to the gadget; the allocated ones follow `first`.
Booleans(by, first) ==
    [k \in 1 .. Len(by) |->
        Bool(by[k].kind,
             IF by[k].kind = "Constant" THEN ONE
             ELSE first + Cardinality({j \in 1 .. k : by[j].kind # "Constant"}),
             by[k].value)]

HarnessCS(i) ==
    CASE i.call \in {"edwards_add", "montgomery_add"} ->
             AllocPoint(AllocPoint(EmptyCS, "x0", "y0", i.p1), "x1", "y1", i.p2)
      [] i.call = "edwards_double" -> AllocPoint(EmptyCS, "x0", "y0", i.p1)
      [] i.call \in {"interpret", "montgomery_double"} ->
             AllocPoint(EmptyCS, "x", "y", i.p1)
      [] i.call = "into_edwards" -> AllocPoint(EmptyCS, "mont x", "mont y", i.p1)
      [] i.call = "select" ->
             AllocBools(AllocPoint(EmptyCS, "x0", "y0", i.p1), i.by, 1, TRUE)
      [] i.call = "mul" ->
             AllocBools(AllocPoint(EmptyCS, "x0", "y0", i.p1), i.by, 1, FALSE)
      [] i.call = "fixed" -> AllocBools(EmptyCS, i.by, 1, FALSE)

\* The test cases: the points of a call drawn from EP (Edwards), MP
\* (Montgomery) and IP (interpret).
Cases(EP, MP, IP) ==
    \/ \E p \in EP, q \in EP : inp = Inp("edwards_add", p, q, << >>, NoPair)
    \/ \E p \in EP : inp = Inp("edwards_double", p, NoPair, << >>, NoPair)
    \/ \E p \in EP, b \in AnyBools : inp = Inp("select", p, NoPair, <<b>>, NoPair)
    \/ \E p \in EP, by \in BoolSeqs(AllocatedBools, 0 .. MaxBits) :
           inp = Inp("mul", p, NoPair, by, NoPair)
    \/ \E g \in FixedGenerators,
          by \in BoolSeqs(AllocatedBools, 0 .. (3 * (NumWindows + 1))) :
           inp = Inp("fixed", NoPair, NoPair, by, g)
    \/ \E p \in IP : inp = Inp("interpret", p, NoPair, << >>, NoPair)
    \/ \E p \in MP : inp = Inp("into_edwards", p, NoPair, << >>, NoPair)
    \/ \E p \in MP, q \in MP : inp = Inp("montgomery_add", p, q, << >>, NoPair)
    \/ \E p \in MP : inp = Inp("montgomery_double", p, NoPair, << >>, NoPair)

NoRes == [status |-> "none", x |-> 0, y |-> 0]

NoSaved == [name |-> "", val |-> 0]

Return(r) ==
    /\ pc' = "done"
    /\ cs' = r.cs
    /\ res' = [status |-> r.status, x |-> r.x, y |-> r.y]
    /\ UNCHANGED <<inp, saved>>

\* test_edwards_addition
CallEdwardsAdd ==
    /\ pc = "ready" /\ inp.call = "edwards_add"
    /\ Return(EdwardsAdd(cs, "addition", Pt(1, 2), Pt(3, 4)))

\* test_edwards_doubling
CallEdwardsDouble ==
    /\ pc = "ready" /\ inp.call = "edwards_double"
    /\ Return(EdwardsDouble(cs, "doubling", Pt(1, 2)))

\* test_conditionally_select
CallConditionallySelect ==
    /\ pc = "ready" /\ inp.call = "select"
    /\ Return(ConditionallySelect(cs, "select", Pt(1, 2), Booleans(inp.by, 2)[1]))

\* test_edwards_multiplication
CallEdwardsMul ==
    /\ pc = "ready" /\ inp.call = "mul"
    /\ Return(EdwardsMul(cs, "scalar mul", Pt(1, 2), Booleans(inp.by, 2)))

\* test_edwards_fixed_base_multiplication
CallFixedBaseMultiplication ==
    /\ pc = "ready" /\ inp.call = "fixed"
    /\ Return(FixedBaseMultiplication(cs, "multiplication", inp.base,
                                      Booleans(inp.by, 0)))

\* test_interpret
CallInterpret ==
    /\ pc = "ready" /\ inp.call = "interpret"
    /\ Return(Interpret(cs, "", 1, 2))

\* test_into_edwards
CallIntoEdwards ==
    /\ pc = "ready" /\ inp.call = "into_edwards"
    /\ Return(IntoEdwards(cs, "", Pt(1, 2)))

\* test_montgomery_addition
CallMontgomeryAdd ==
    /\ pc = "ready" /\ inp.call = "montgomery_add"
    /\ Return(MontgomeryAdd(cs, "addition", Pt(1, 2), Pt(3, 4)))

\* test_montgomery_doubling, test_doubling_order_2
CallMontgomeryDouble ==
    /\ pc = "ready" /\ inp.call = "montgomery_double"
    /\ Return(MontgomeryDouble(cs, "doubling", Pt(1, 2)))

InitWith(EP, MP, IP) ==
    /\ pc = "ready"
    /\ Cases(EP, MP, IP)
    /\ cs = HarnessCS(inp)
    /\ res = NoRes
    /\ saved = NoSaved

\* Curve points as the tests draw them; interpret on any pair.
Init == InitWith(EdwardsPoints, MontgomeryPoints, FrPairs)

\* Any pair of field elements as the coordinates of every point.
InitAny == InitWith(FrPairs, FrPairs, FrPairs)

Next ==
    \/ CallEdwardsAdd
    \/ CallEdwardsDouble
    \/ CallConditionallySelect
    \/ CallEdwardsMul
    \/ CallFixedBaseMultiplication
    \/ CallInterpret
    \/ CallIntoEdwards
    \/ CallMontgomeryAdd
    \/ CallMontgomeryDouble

Spec == Init /\ [][Next]_vars

SpecAny == InitAny /\ [][Next]_vars

(***************************************************************************)
(* The tampering steps of the tests: after a successful call on a          *)
(* satisfied system, cs.get of one named intermediate, cs.set of another   *)
(* field element, then cs.set of the value read.                           *)
(***************************************************************************)
\* The named intermediates of each call and the constraint named for each.
Intermediates ==
    {[call |-> "edwards_add", var |-> "addition/U/num", con |-> "addition/U computation"],
     [call |-> "edwards_add", var |-> "addition/x3/num", con |-> "addition/x3 computation"],
     [call |-> "edwards_add", var |-> "addition/y3/num", con |-> "addition/y3 computation"],
     [call |-> "montgomery_add", var |-> "addition/lambda/num",
      con |-> "addition/evaluate lambda"],
     [call |-> "montgomery_add", var |-> "addition/xprime/num",
      con |-> "addition/evaluate xprime"],
     [call |-> "montgomery_add", var |-> "addition/yprime/num",
      con |-> "addition/evaluate yprime"],
     [call |-> "montgomery_double", var |-> "doubling/lambda/num",
      con |-> "doubling/evaluate lambda"],
     [call |-> "montgomery_double", var |-> "doubling/xprime/num",
      con |-> "doubling/evaluate xprime"],
     [call |-> "montgomery_double", var |-> "doubling/yprime/num",
      con |-> "doubling/evaluate yprime"],
     [call |-> "into_edwards", var |-> "u/num", con |-> "u computation"],
     [call |-> "into_edwards", var |-> "v/num", con |-> "v computation"],
     [call |-> "select", var |-> "select/x'/num", con |-> "select/x' computation"],
     [call |-> "select", var |-> "select/y'/num", con |-> "select/y' computation"]}

\* TestConstraintSystem::get and set by path.
CsGet(c, name) == (CHOOSE k \in 1 .. Len(c.vars) : c.vars[k].name = name)

CsSet(c, name, v) ==
    [c EXCEPT !.vars = [k \in 1 .. Len(c.vars) |->
                           IF c.vars[k].name = name THEN [name |-> name, val |-> v]
                           ELSE c.vars[k]]]

Tamper ==
    /\ pc = "done" /\ res.status = "Ok" /\ IsSatisfied(cs)
    /\ \E m \in Intermediates, v \in Fr :
           /\ m.call = inp.call
           /\ \E k \in 1 .. Len(cs.vars) : cs.vars[k].name = m.var
           /\ v # cs.vars[CsGet(cs, m.var)].val
           /\ saved' = [name |-> m.var, val |-> cs.vars[CsGet(cs, m.var)].val]
           /\ cs' = CsSet(cs, m.var, v)
    /\ pc' = "tampered"
    /\ UNCHANGED <<inp, res>>

Restore ==
    /\ pc = "tampered"
    /\ cs' = CsSet(cs, saved.name, saved.val)
    /\ pc' = "restored"
    /\ UNCHANGED <<inp, res, saved>>

NextTamper ==
    \/ Next
    \/ Tamper
    \/ Restore

SpecTamper == Init /\ [][NextTamper]_vars

(***************************************************************************)
(* What the harness reads back after a call.                               *)
(***************************************************************************)
Done(call) == pc = "done" /\ inp.call = call

\* The witness of the returned point.
ResPoint == <<Val(cs, res.x), Val(cs, res.y)>>

\* The constraint of that name was emitted and holds under the witness.
NamedSat(name) ==
    /\ \E i \in 1 .. Len(cs.cons) : cs.cons[i].name = name
    /\ \A i \in 1 .. Len(cs.cons) :
           cs.cons[i].name = name => ConSat(cs.vars, cs.cons[i])

\* The scalar a little-endian bit sequence encodes.
RECURSIVE ScalarFrom(_, _)
ScalarFrom(by, i) ==
    IF i > Len(by) THEN 0
    ELSE (IF by[i].value THEN 1 ELSE 0) + 2 * ScalarFrom(by, i + 1)

Scalar(by) == ScalarFrom(by, 1)

Neutral == <<0, 1>>

(***************************************************************************)
(* C1: for every pair of Edwards points P1, P2 (P1 = P2 included, which is *)
(* what double computes), add returns a point whose witness is the         *)
(* reference sum x3 = (x1 y2 + y1 x2) / (1 + d x1 x2 y1 y2),               *)
(* y3 = (y1 y2 + x1 x2) / (1 - d x1 x2 y1 y2), and the constraint system   *)
(* is satisfied afterwards.                                                *)
(***************************************************************************)
C1_EdwardsAddMatchesReference ==
    /\ Done("edwards_add") =>
           /\ res.status = "Ok"
           /\ ResPoint = RefEdwardsAdd(inp.p1, inp.p2)
           /\ IsSatisfied(cs)
    /\ Done("edwards_double") =>
           /\ res.status = "Ok"
           /\ ResPoint = RefEdwardsAdd(inp.p1, inp.p1)
           /\ IsSatisfied(cs)

C1_Witness ==
    /\ Done("edwards_add")
    /\ inp.p1 # inp.p2 /\ inp.p1 # Neutral /\ inp.p2 # Neutral
    /\ res.status = "Ok"
    /\ ResPoint \notin {inp.p1, inp.p2, Neutral}

(***************************************************************************)
(* C2: for every Edwards point P and every non-empty little-endian bit     *)
(* sequence encoding s, mul returns a point whose witness is the reference *)
(* multiple s * P, and the constraint system is satisfied afterwards.      *)
(***************************************************************************)
C2_MulMatchesReference ==
    (Done("mul") /\ Len(inp.by) >= 1) =>
        /\ res.status = "Ok"
        /\ ResPoint = RefEdwardsMul(Scalar(inp.by), inp.p1)
        /\ IsSatisfied(cs)

C2_Witness ==
    /\ Done("mul")
    /\ Len(inp.by) = MaxBits
    /\ inp.by[1].value /\ ~inp.by[2].value /\ inp.by[MaxBits].value
    /\ res.status = "Ok"
    /\ ResPoint \notin {inp.p1, Neutral}

(***************************************************************************)
(* C3: with window table i holding c * (2^(3i) * G) at c = 0 .. 7, for     *)
(* every bit sequence whose length is a positive multiple of 3 and at most *)
(* 3 times the number of tables, fixed_base_multiplication returns a point *)
(* whose witness is (sum of chunk_i * 2^(3i)) * G.                         *)
(***************************************************************************)
C3_FixedBaseMatchesReference ==
    (/\ Done("fixed")
     /\ Len(inp.by) >= 3 /\ Len(inp.by) % 3 = 0
     /\ Len(inp.by) <= 3 * NumWindows) =>
        /\ res.status = "Ok"
        /\ ResPoint = RefEdwardsMul(Scalar(inp.by), inp.base)

C3_Witness ==
    /\ Done("fixed")
    /\ Len(inp.by) = 3 * NumWindows
    /\ inp.by[1].value /\ inp.by[3 * NumWindows - 1].value
    /\ res.status = "Ok"
    /\ ResPoint # Neutral

(***************************************************************************)
(* C4: for every point P = (x, y) and every Boolean b (allocated, negated  *)
(* or constant), conditionally_select returns a point whose witness is     *)
(* (x, y) when b is true and (0, 1) when b is false, and the two emitted   *)
(* constraints "x' computation" and "y' computation" are satisfied.        *)
(***************************************************************************)
C4_ConditionallySelect ==
    Done("select") =>
        /\ res.status = "Ok"
        /\ ResPoint = (IF inp.by[1].value THEN inp.p1 ELSE Neutral)
        /\ Len(cs.cons) = Len(HarnessCS(inp).cons) + 2
        /\ NamedSat("select/x' computation")
        /\ NamedSat("select/y' computation")

C4_Witness ==
    /\ Done("select")
    /\ inp.by[1].kind = "Not" /\ ~inp.by[1].value
    /\ inp.p1 \notin {Neutral, <<0, 0>>}
    /\ ResPoint = Neutral

(***************************************************************************)
(* C5: for every pair (x, y), interpret returns successfully a point       *)
(* carrying the same x and y; the constraint system is satisfied iff       *)
(* -x^2 + y^2 = 1 + d x^2 y^2; when (x, y) is off the curve the            *)
(* unsatisfied constraint is "on curve check".                             *)
(***************************************************************************)
C5_InterpretOnCurveCheck ==
    Done("interpret") =>
        /\ res.status = "Ok"
        /\ res.x = 1 /\ res.y = 2
        /\ ResPoint = inp.p1
        /\ IsSatisfied(cs) <=> OnEdwards(inp.p1[1], inp.p1[2])
        /\ ~OnEdwards(inp.p1[1], inp.p1[2]) =>
               WhichIsUnsatisfied(cs) = "on curve check"

C5_Witness ==
    /\ Done("interpret")
    /\ ~OnEdwards(inp.p1[1], inp.p1[2])
    /\ inp.p1[1] # 0 /\ inp.p1[2] # 0
    /\ res.status = "Ok"
    /\ WhichIsUnsatisfied(cs) = "on curve check"

(***************************************************************************)
(* C6: for every Montgomery point (x, y) with y # 0 and x # -1,            *)
(* into_edwards returns a point whose witness is u = scale * x / y,        *)
(* v = (x - 1) / (x + 1), the birational image (on the Edwards curve when  *)
(* (x, y) is on the Montgomery curve), and the two emitted constraints     *)
(* "u computation" and "v computation" are satisfied.                      *)
(***************************************************************************)
C6_IntoEdwards ==
    (Done("into_edwards") /\ inp.p1[2] # 0 /\ inp.p1[1] # P - 1) =>
        /\ res.status = "Ok"
        /\ ResPoint = <<FDiv(FMul(scale, inp.p1[1]), inp.p1[2]),
                        FDiv(FSub(inp.p1[1], 1), FAdd(inp.p1[1], 1))>>
        /\ OnMontgomery(inp.p1[1], inp.p1[2]) => OnEdwards(ResPoint[1], ResPoint[2])
        /\ Len(cs.cons) = 2
        /\ NamedSat("u computation")
        /\ NamedSat("v computation")

C6_Witness ==
    /\ Done("into_edwards")
    /\ OnMontgomery(inp.p1[1], inp.p1[2])
    /\ inp.p1[2] # 0 /\ inp.p1[1] \notin {P - 1, 1}
    /\ res.status = "Ok"
    /\ OnEdwards(ResPoint[1], ResPoint[2])

(***************************************************************************)
(* C7: on Montgomery curve points, add with different x coordinates and    *)
(* double with y # 0 return a point whose witness is the reference affine  *)
(* result, and the constraint system is satisfied afterwards.              *)
(*   add:    lambda = (y2 - y1) / (x2 - x1), x3 = lambda^2 - A - x1 - x2,  *)
(*           y3 = lambda (x1 - x3) - y1                                    *)
(*   double: lambda = (3 x^2 + 2 A x + 1) / (2 y),                         *)
(*           x' = lambda^2 - A - 2 x, y' = lambda (x - x') - y             *)
(***************************************************************************)
RefMontgomeryFromLambda(l, p, q) ==
    LET x3 == FSub(FSub(FSub(FSquare(l), montgomery_a), p[1]), q[1])
    IN  <<x3, FSub(FMul(l, FSub(p[1], x3)), p[2])>>

RefMontgomeryAdd(p, q) ==
    RefMontgomeryFromLambda(FDiv(FSub(q[2], p[2]), FSub(q[1], p[1])), p, q)

RefMontgomeryDouble(p) ==
    RefMontgomeryFromLambda(
        FDiv(FAdd(FAdd(FMul(3, FSquare(p[1])),
                       FMul(FMul(2, montgomery_a), p[1])), 1),
             FMul(2, p[2])),
        p, p)

C7_MontgomeryMatchesReference ==
    /\ (Done("montgomery_add") /\ OnMontgomery(inp.p1[1], inp.p1[2])
            /\ OnMontgomery(inp.p2[1], inp.p2[2]) /\ inp.p1[1] # inp.p2[1]) =>
           /\ res.status = "Ok"
           /\ ResPoint = RefMontgomeryAdd(inp.p1, inp.p2)
           /\ IsSatisfied(cs)
    /\ (Done("montgomery_double") /\ OnMontgomery(inp.p1[1], inp.p1[2])
            /\ inp.p1[2] # 0) =>
           /\ res.status = "Ok"
           /\ ResPoint = RefMontgomeryDouble(inp.p1)
           /\ IsSatisfied(cs)

C7_Witness ==
    /\ Done("montgomery_add")
    /\ inp.p1[1] # inp.p2[1] /\ inp.p1[2] # 0 /\ inp.p2[2] # 0
    /\ res.status = "Ok"
    /\ OnMontgomery(ResPoint[1], ResPoint[2])
    /\ ResPoint[2] # 0

(***************************************************************************)
(* The constraints an operation emits, as a circuit: they do not depend on *)
(* the witness, so they are read off a run of the same call (same          *)
(* Booleans) on sample points where no denominator vanishes.               *)
(***************************************************************************)
SampleInp(i) ==
    IF i.call \in {"into_edwards", "montgomery_add", "montgomery_double"}
    THEN [i EXCEPT !.p1 = <<1, 7>>, !.p2 = <<4, 2>>]
    ELSE [i EXCEPT !.p1 = <<5, 13>>, !.p2 = <<3, 2>>]

Gadget(i, c) ==
    CASE i.call = "edwards_add" -> EdwardsAdd(c, "addition", Pt(1, 2), Pt(3, 4))
      [] i.call = "select" ->
             ConditionallySelect(c, "select", Pt(1, 2), Booleans(i.by, 2)[1])
      [] i.call = "into_edwards" -> IntoEdwards(c, "", Pt(1, 2))
      [] i.call = "montgomery_add" ->
             MontgomeryAdd(c, "addition", Pt(1, 2), Pt(3, 4))
      [] i.call = "montgomery_double" -> MontgomeryDouble(c, "doubling", Pt(1, 2))

MaxOf(S) == IF S = {} THEN 0 ELSE CHOOSE m \in S : \A n \in S : n <= m

\* The last variable a constraint mentions.
LastVarOf(k) ==
    MaxOf({k.a[j][2] : j \in 1 .. Len(k.a)} \cup {k.b[j][2] : j \in 1 .. Len(k.b)}
              \cup {k.c[j][2] : j \in 1 .. Len(k.c)})

\* The circuit of a call: the handles of its output, the number of input
\* variables, the names of all variables and, for each variable, the emitted
\* constraints that mention no later variable.
Circuit(i) ==
    LET h == HarnessCS(SampleInp(i))
        r == Gadget(SampleInp(i), h)
    IN  [x |-> r.x, y |-> r.y, inputs |-> Len(h.vars),
         names |-> [k \in 1 .. Len(r.cs.vars) |-> r.cs.vars[k].name],
         closed |-> [k \in 1 .. Len(r.cs.vars) |->
                        {r.cs.cons[j] : j \in {j \in (Len(h.cons) + 1) .. Len(r.cs.cons) :
                                                  LastVarOf(r.cs.cons[j]) = k}}],
         onInputs |-> {r.cs.cons[j] : j \in {j \in (Len(h.cons) + 1) .. Len(r.cs.cons) :
                                                LastVarOf(r.cs.cons[j]) <= Len(h.vars)}}]

CircuitInputs ==
    {Inp(c, NoPair, NoPair, << >>, NoPair) :
        c \in {"edwards_add", "into_edwards", "montgomery_add", "montgomery_double"}}
        \cup {Inp("select", NoPair, NoPair, by, NoPair) : by \in BoolSeqs(AnyBools, {1})}

Circuits == [i \in CircuitInputs |-> Circuit(i)]

\* The output points of the assignments that extend `vals` (variables
\* 1 .. k-1) to all the variables of circuit r and satisfy every emitted
\* constraint, found variable by variable.
RECURSIVE Outputs(_, _, _)
Outputs(r, vals, k) ==
    IF k > Len(r.names) THEN {<<vals[r.x].val, vals[r.y].val>>}
    ELSE UNION {Outputs(r, w, k + 1) :
                   w \in {w \in {Append(vals, [name |-> r.names[k], val |-> v]) :
                                     v \in Fr} :
                             \A con \in r.closed[k] : ConSat(w, con)}}

\* The output points the emitted constraints allow on the inputs of the run.
AllowedOutputs ==
    LET h == HarnessCS(inp)
        r == Circuits[[inp EXCEPT !.p1 = NoPair, !.p2 = NoPair]]
    IN  IF \E con \in r.onInputs : ~ConSat(h.vars, con)
        THEN {}
        ELSE Outputs(r, h.vars, r.inputs + 1)

UniquelyEnforced == Cardinality(AllowedOutputs) <= 1

ConstrainedCalls ==
    {"edwards_add", "select", "into_edwards", "montgomery_add", "montgomery_double"}

(***************************************************************************)
(* C8 as stated: the constraints each operation emits (Edwards add,        *)
(* Montgomery add, Montgomery double, into_edwards, conditionally_select)  *)
(* uniquely enforce the output for every assignment of the inputs,         *)
(* degenerate ones included: any two assignments of the new variables that *)
(* satisfy all emitted constraints give the same output point.             *)
(***************************************************************************)
C8_Original_UniqueOnEveryInput ==
    (pc = "done" /\ inp.call \in ConstrainedCalls) => UniquelyEnforced

\* The inputs where a constraint reads 0 = 0 in its new variable.
FreeInput ==
    \/ /\ inp.call = "montgomery_add"
       /\ inp.p1 = inp.p2
    \/ /\ inp.call = "montgomery_double"
       /\ inp.p1[2] = 0
       /\ FAdd(FAdd(FMul(3, FSquare(inp.p1[1])), FMul(montgomery_2a, inp.p1[1])), 1) = 0
    \/ /\ inp.call = "into_edwards"
       /\ inp.p1 = <<0, 0>>

(***************************************************************************)
(* C8 as amended: the constraints of Edwards add and conditionally_select  *)
(* uniquely enforce the output on every input assignment, zero             *)
(* denominators included; those of Montgomery add, Montgomery double and   *)
(* into_edwards do so on every input assignment except Montgomery add on   *)
(* coincident points (x2 = x1, y2 = y1), Montgomery double with y = 0 and  *)
(* 3 x^2 + 2 A x + 1 = 0, and into_edwards at (0, 0), where the output is  *)
(* not unique.                                                             *)
(***************************************************************************)
C8_UniqueExceptFreeInputs ==
    (pc = "done" /\ inp.call \in ConstrainedCalls) =>
        (UniquelyEnforced <=> ~FreeInput)

C8_Witness ==
    /\ Done("edwards_add")
    /\ res.status = "DivisionByZero"
    /\ UniquelyEnforced
    /\ AllowedOutputs = {}

(***************************************************************************)
(* C9: with every input witness present, each operation returns            *)
(* DivisionByZero, and no point, exactly when one of its denominators is   *)
(* zero: Edwards add when 1 + C = 0 or 1 - C = 0 (C = d x1 y2 x2 y1),      *)
(* Montgomery add when x2 = x1, Montgomery double when y = 0, into_edwards *)
(* when y = 0 or x = -1; in every other case the operation succeeds.       *)
(***************************************************************************)
EdwardsC == FMul(edwards_d, FMul(FMul(inp.p1[1], inp.p2[2]), FMul(inp.p2[1], inp.p1[2])))

ZeroDenominator ==
    CASE inp.call = "edwards_add" -> FAdd(1, EdwardsC) = 0 \/ FSub(1, EdwardsC) = 0
      [] inp.call = "montgomery_add" -> inp.p2[1] = inp.p1[1]
      [] inp.call = "montgomery_double" -> inp.p1[2] = 0
      [] inp.call = "into_edwards" -> inp.p1[2] = 0 \/ inp.p1[1] = P - 1

DividingCalls == {"edwards_add", "into_edwards", "montgomery_add", "montgomery_double"}

C9_DivisionByZeroIffZeroDenominator ==
    (pc = "done" /\ inp.call \in DividingCalls) =>
        /\ ZeroDenominator => (res.status = "DivisionByZero" /\ res.x = 0 /\ res.y = 0)
        /\ ~ZeroDenominator => (res.status = "Ok" /\ res.x # 0 /\ res.y # 0)

C9_Witness ==
    /\ Done("edwards_add")
    /\ FSub(1, EdwardsC) = 0
    /\ res.status = "DivisionByZero"
    /\ Len(cs.vars) = 9

(***************************************************************************)
(* C10: the neutral element (0, 1) is a two-sided identity of add: for     *)
(* every point P = (x, y), add((0, 1), P) and add(P, (0, 1)) succeed, the  *)
(* returned point has witness (x, y), and the constraint system is         *)
(* satisfied.                                                              *)
(***************************************************************************)
C10_NeutralIsTwoSidedIdentity ==
    /\ (Done("edwards_add") /\ inp.p1 = Neutral) =>
           (res.status = "Ok" /\ ResPoint = inp.p2 /\ IsSatisfied(cs))
    /\ (Done("edwards_add") /\ inp.p2 = Neutral) =>
           (res.status = "Ok" /\ ResPoint = inp.p1 /\ IsSatisfied(cs))

C10_Witness ==
    /\ Done("edwards_add")
    /\ inp.p1 = Neutral
    /\ ~OnEdwards(inp.p2[1], inp.p2[2])
    /\ inp.p2[1] # 0 /\ inp.p2[2] # 0
    /\ res.status = "Ok"
    /\ ResPoint = inp.p2

(***************************************************************************)
(* Tampering with one named intermediate.                                  *)
(***************************************************************************)
\* The names of the unsatisfied constraints.
Unsatisfied(c) ==
    {c.cons[i].name : i \in {i \in 1 .. Len(c.cons) : ~ConSat(c.vars, c.cons[i])}}

\* The intermediate the run has overwritten.
Tampered == CHOOSE m \in Intermediates : m.call = inp.call /\ m.var = saved.name

Namespace(call) ==
    CASE call \in {"edwards_add", "montgomery_add"} -> "addition"
      [] call = "montgomery_double" -> "doubling"
      [] call = "select" -> "select"
      [] call = "into_edwards" -> ""
      [] call = "mul" -> "scalar mul"
      [] call = "fixed" -> "multiplication"

NameIn(short) == Path(Namespace(inp.call), short)

ValueOf(short) == cs.vars[CsGet(cs, NameIn(short))].val

(***************************************************************************)
(* C11 as stated: after a successful operation on a satisfied constraint   *)
(* system, replacing the witness of one named intermediate variable with   *)
(* any other field element leaves exactly one constraint unsatisfied, the  *)
(* one named for that variable.                                            *)
(***************************************************************************)
C11_Original_ExactlyTheNamedConstraint ==
    pc = "tampered" => Unsatisfied(cs) = {Tampered.con}

\* The constraints emitted after the named one that read the overwritten
\* variable and no longer hold.
AlsoUnsatisfied ==
    CASE saved.name = NameIn("U/num") -> {NameIn("y3 computation")}
      [] saved.name = NameIn("lambda/num") ->
             (IF FSquare(ValueOf("lambda/num")) # FSquare(saved.val)
              THEN {NameIn("evaluate xprime")} ELSE {})
                 \cup (IF ValueOf("xprime/num") # inp.p1[1]
                       THEN {NameIn("evaluate yprime")} ELSE {})
      [] saved.name = NameIn("xprime/num") ->
             IF ValueOf("lambda/num") # 0 THEN {NameIn("evaluate yprime")} ELSE {}
      [] OTHER -> {}

(***************************************************************************)
(* C11 as amended: after a successful operation on a satisfied constraint  *)
(* system, replacing the witness of one named intermediate with any other  *)
(* field element leaves the constraint named for it unsatisfied.  It is    *)
(* the only unsatisfied constraint for x3, y3, yprime, u, v, x' and y'.    *)
(* For U, 'y3 computation' is unsatisfied as well.  For lambda, 'evaluate  *)
(* xprime' is unsatisfied as well unless the new value is the negative of  *)
(* the old one, and 'evaluate yprime' unless xprime = x1.  For xprime,     *)
(* 'evaluate yprime' is unsatisfied as well unless lambda = 0.  Every      *)
(* other constraint stays satisfied.                                       *)
(***************************************************************************)
C11_NamedConstraintAndItsReaders ==
    pc = "tampered" => Unsatisfied(cs) = {Tampered.con} \cup AlsoUnsatisfied

C11_Witness ==
    /\ pc = "tampered"
    /\ inp.call = "montgomery_add"
    /\ saved.name = "addition/lambda/num"
    /\ Unsatisfied(cs) = {"addition/evaluate lambda", "addition/evaluate yprime"}

(***************************************************************************)
(* C12: after a successful operation on a satisfied constraint system,     *)
(* changing the witness of one named intermediate to a different value     *)
(* makes the first unsatisfied constraint, in emission order, the one      *)
(* named for that variable, and writing the original value back makes the  *)
(* constraint system satisfied again.                                      *)
(***************************************************************************)
C12_FirstUnsatisfiedIsNamed ==
    /\ pc = "tampered" => WhichIsUnsatisfied(cs) = Tampered.con
    /\ pc = "restored" => (IsSatisfied(cs) /\ WhichIsUnsatisfied(cs) = "None")

C12_Witness ==
    /\ pc = "restored"
    /\ inp.call = "montgomery_double"
    /\ saved.name = "doubling/xprime/num"
    /\ IsSatisfied(cs)

(***************************************************************************)
(* C13 as stated: every point returned by interpret, add, double, mul,     *)
(* fixed_base_multiplication or conditionally_select has witness values    *)
(* (x, y) that satisfy the curve equation -x^2 + y^2 = 1 + d x^2 y^2.      *)
(***************************************************************************)
PointCalls == {"interpret", "edwards_add", "edwards_double", "mul", "fixed", "select"}

Returned == pc = "done" /\ inp.call \in PointCalls /\ res.status = "Ok"

C13_Original_EveryReturnedPointOnCurve ==
    Returned => OnEdwards(ResPoint[1], ResPoint[2])

\* The input points of the call have witnesses on the curve.
InputsOnCurve ==
    /\ inp.call \in {"interpret", "edwards_add", "edwards_double", "mul", "select"}
           => OnEdwards(inp.p1[1], inp.p1[2])
    /\ inp.call = "edwards_add" => OnEdwards(inp.p2[1], inp.p2[2])

(***************************************************************************)
(* C13 as amended: every point returned by add, double, mul,               *)
(* fixed_base_multiplication or conditionally_select on input points whose *)
(* witnesses satisfy the curve equation has witness values that satisfy    *)
(* it.  interpret returns the point for every (x, y): its witness          *)
(* satisfies the curve equation exactly when the constraint system is      *)
(* satisfied, and for (x, y) off the curve the point is still returned.    *)
(***************************************************************************)
C13_OnCurveWhenInputsAre ==
    Returned =>
        /\ InputsOnCurve => OnEdwards(ResPoint[1], ResPoint[2])
        /\ inp.call = "interpret" =>
               (OnEdwards(ResPoint[1], ResPoint[2]) <=> IsSatisfied(cs))

C13_Witness ==
    /\ Done("interpret")
    /\ res.status = "Ok"
    /\ ~OnEdwards(ResPoint[1], ResPoint[2])
    /\ ~IsSatisfied(cs)

(***************************************************************************)
(* The intermediates of fixed_base_multiplication, windows counted from 0. *)
(***************************************************************************)
\* The number of windows the call has gone through.
WindowsUsed == Min(Len(inp.by) \div 3, NumWindows)

ChunkValue(i) == Scalar(SubSeq(inp.by, 3 * i + 1, 3 * i + 3))

LookedUp(i) ==
    <<ValueOf("window table lookup " \o ToString(i) \o "/x/num"),
      ValueOf("window table lookup " \o ToString(i) \o "/y/num")>>

Accumulated(i) ==
    IF i = 0 THEN LookedUp(0)
    ELSE <<ValueOf("addition " \o ToString(i) \o "/x3/num"),
           ValueOf("addition " \o ToString(i) \o "/y3/num")>>

(***************************************************************************)
(* C14 as stated: during fixed_base_multiplication over window tables that *)
(* hold c * (2^(3i) * G) for c = 0 .. 7, for every input bit sequence,     *)
(* the identity (0, 1) never appears as an intermediate: neither a         *)
(* looked-up window point nor any accumulated result is (0, 1).            *)
(***************************************************************************)
C14_Original_IdentityNeverIntermediate ==
    (Done("fixed") /\ res.status = "Ok") =>
        \A i \in 0 .. (WindowsUsed - 1) :
            LookedUp(i) # Neutral /\ Accumulated(i) # Neutral

(***************************************************************************)
(* C14 as amended: during fixed_base_multiplication over window tables     *)
(* that hold c * (2^(3i) * G) for c = 0 .. 7, the point looked up in       *)
(* window i is chunk_i * (2^(3i) * G) and the result accumulated after     *)
(* window i is (chunk_0 + ... + chunk_i * 2^(3i)) * G.  The identity       *)
(* (0, 1) does appear as an intermediate: the looked-up point is (0, 1)    *)
(* whenever chunk_i is 000, and the accumulated result is (0, 1) whenever  *)
(* every chunk so far is 000.  The call succeeds all the same and the      *)
(* constraint system is satisfied.                                         *)
(***************************************************************************)
C14_IntermediatesAreTheMultiples ==
    (Done("fixed") /\ Len(inp.by) >= 3 /\ Len(inp.by) % 3 = 0) =>
        /\ res.status = "Ok"
        /\ IsSatisfied(cs)
        /\ \A i \in 0 .. (WindowsUsed - 1) :
               /\ LookedUp(i) = RefEdwardsMul(ChunkValue(i), WindowBase(inp.base, i))
               /\ ChunkValue(i) = 0 => LookedUp(i) = Neutral
               /\ Accumulated(i) =
                      RefEdwardsMul(Scalar(SubSeq(inp.by, 1, 3 * i + 3)), inp.base)
               /\ Scalar(SubSeq(inp.by, 1, 3 * i + 3)) = 0 => Accumulated(i) = Neutral

C14_Witness ==
    /\ Done("fixed")
    /\ res.status = "Ok"
    /\ WindowsUsed = 2
    /\ ChunkValue(0) = 5
    /\ ChunkValue(1) = 0
    /\ LookedUp(0) # Neutral
    /\ LookedUp(1) = Neutral
    /\ Accumulated(1) = LookedUp(0)
    /\ IsSatisfied(cs)

(***************************************************************************)
(* C15: EdwardsPoint::mul called with a zero-length bit sequence returns   *)
(* the error AssignmentMissing, returns no point, emits no constraint and  *)
(* allocates no variable.                                                  *)
(***************************************************************************)
C15_MulOfNoBits ==
    (Done("mul") /\ Len(inp.by) = 0) =>
        /\ res.status = "AssignmentMissing"
        /\ res.x = 0 /\ res.y = 0
        /\ cs = HarnessCS(inp)

C15_Witness ==
    /\ Done("mul")
    /\ Len(inp.by) = 0
    /\ inp.p1 # Neutral
    /\ res.status = "AssignmentMissing"
    /\ Len(cs.vars) = 2 /\ Len(cs.cons) = 0

(***************************************************************************)
(* C16: fixed_base_multiplication called with a bit sequence whose length  *)
(* is not a multiple of 3 aborts (assertion failure) before any table      *)
(* lookup is made and before any variable or constraint is added to the    *)
(* constraint system.                                                      *)
(***************************************************************************)
C16_FixedBaseAssertsLength ==
    (Done("fixed") /\ Len(inp.by) % 3 # 0) =>
        /\ res.status = "AssertionFailed"
        /\ res.x = 0 /\ res.y = 0
        /\ cs = HarnessCS(inp)

C16_Witness ==
    /\ Done("fixed")
    /\ Len(inp.by) = 4
    /\ res.status = "AssertionFailed"
    /\ Len(cs.vars) = 4 /\ Len(cs.cons) = 4

(***************************************************************************)
(* Calls that return an error part-way.                                    *)
(***************************************************************************)
Failed == pc = "done" /\ res.status = "DivisionByZero"

\* The names of the constraints the call has emitted, in order.
EmittedNames ==
    [i \in 1 .. (Len(cs.cons) - Len(HarnessCS(inp).cons)) |->
        cs.cons[Len(HarnessCS(inp).cons) + i].name]

\* The constraints the text of each operation emits before the step that
\* fails.
EmittedBeforeFailure ==
    CASE inp.call = "edwards_add" ->
             <<"addition/U computation",
               "addition/A computation/multiplication constraint",
               "addition/B computation/multiplication constraint",
               "addition/C computation">>
                 \o (IF FAdd(1, EdwardsC) # 0 THEN <<"addition/x3 computation">>
                     ELSE << >>)
      [] inp.call = "montgomery_add" -> << >>
      [] inp.call = "montgomery_double" -> <<"doubling/squaring constraint">>
      [] inp.call = "into_edwards" ->
             IF inp.p1[2] # 0 THEN <<"u computation">> ELSE << >>

\* The constraint system of the caller is kept as it was.
CallerPartKept ==
    LET h == HarnessCS(inp)
    IN  /\ Len(cs.vars) >= Len(h.vars) /\ Len(cs.cons) >= Len(h.cons)
        /\ SubSeq(cs.vars, 1, Len(h.vars)) = h.vars
        /\ SubSeq(cs.cons, 1, Len(h.cons)) = h.cons

(***************************************************************************)
(* C17: when a gadget operation returns an error part-way, no point is     *)
(* returned, the constraints emitted before the failure remain in the      *)
(* constraint system, every remaining constraint refers only to variables  *)
(* that were allocated, and a constraint system that was satisfied before  *)
(* the call is still satisfied after it.                                   *)
(***************************************************************************)
C17_ErrorLeavesWellFormedSystem ==
    Failed =>
        /\ res.x = 0 /\ res.y = 0
        /\ CallerPartKept
        /\ inp.call \in DividingCalls => EmittedNames = EmittedBeforeFailure
        /\ inp.call = "mul" =>
               /\ Len(EmittedNames) >= 6
               /\ EmittedNames[1] = "scalar mul/selection 0/x' computation"
               /\ EmittedNames[2] = "scalar mul/selection 0/y' computation"
        /\ \A i \in 1 .. Len(cs.cons) : LastVarOf(cs.cons[i]) <= Len(cs.vars)
        /\ IsSatisfied(HarnessCS(inp)) => IsSatisfied(cs)

C17_Witness ==
    /\ Failed
    /\ inp.call = "mul"
    /\ \E i \in 1 .. Len(cs.cons) : cs.cons[i].name = "scalar mul/addition 1/x3 computation"
    /\ \A i \in 1 .. Len(cs.cons) : cs.cons[i].name # "scalar mul/addition 1/y3 computation"
    /\ IsSatisfied(cs)

(***************************************************************************)
(* The steps of EdwardsPoint::mul as the constraint system records them,   *)
(* bits counted from 0.                                                    *)
(***************************************************************************)
AddNames(ns) ==
    <<Path(ns, "U computation"),
      Path(ns, "A computation/multiplication constraint"),
      Path(ns, "B computation/multiplication constraint"),
      Path(ns, "C computation"),
      Path(ns, "x3 computation"),
      Path(ns, "y3 computation")>>

SelectNames(ns) == <<Path(ns, "x' computation"), Path(ns, "y' computation")>>

Step(kind, i) == "scalar mul/" \o kind \o " " \o ToString(i)

\* doubling i, selection i, addition i for i = from .. n-1, no doubling and no
\* addition for i = 0.
RECURSIVE ExpectedMulNames(_, _)
ExpectedMulNames(n, from) ==
    IF from >= n THEN << >>
    ELSE (IF from > 0 THEN AddNames(Step("doubling", from)) ELSE << >>)
             \o SelectNames(Step("selection", from))
             \o (IF from > 0 THEN AddNames(Step("addition", from)) ELSE << >>)
             \o ExpectedMulNames(n, from + 1)

ConNamed(name) == cs.cons[CHOOSE i \in 1 .. Len(cs.cons) : cs.cons[i].name = name]

Handles(ns, x, y) == Pt(CsGet(cs, Path(ns, x)), CsGet(cs, Path(ns, y)))

\* The running base, the selected point and the running result of step i.
BaseOf(i) ==
    IF i = 0 THEN Pt(1, 2) ELSE Handles(Step("doubling", i), "x3/num", "y3/num")

SelectedOf(i) == Handles(Step("selection", i), "x'/num", "y'/num")

ResultOf(i) ==
    IF i = 0 THEN SelectedOf(0) ELSE Handles(Step("addition", i), "x3/num", "y3/num")

Sum(p) == <<<<1, p.x>>, <<1, p.y>>>>

(***************************************************************************)
(* C18: for a bit sequence of length n >= 1, mul performs, for i = 0, 1,   *)
(* ..., n-1: for i > 0 'doubling i' of the running base, then              *)
(* 'selection i' of the running base by bits[i], then for i > 0            *)
(* 'addition i' of the running result and the selected point; n            *)
(* selections, n-1 doublings and n-1 additions in all, and the base        *)
(* doubled at step i is the unmasked base of step i-1, not the selected    *)
(* point.                                                                  *)
(***************************************************************************)
C18_MulStepOrder ==
    (Done("mul") /\ Len(inp.by) >= 1) =>
        /\ res.status = "Ok"
        /\ EmittedNames = ExpectedMulNames(Len(inp.by), 0)
        /\ \A i \in 0 .. (Len(inp.by) - 1) :
               /\ i > 0 =>
                      /\ ConNamed(Path(Step("doubling", i), "U computation")).a
                             = Sum(BaseOf(i - 1))
                      /\ ConNamed(Path(Step("doubling", i), "U computation")).b
                             = Sum(BaseOf(i - 1))
                      /\ ConNamed(Path(Step("addition", i), "U computation")).a
                             = Sum(ResultOf(i - 1))
                      /\ ConNamed(Path(Step("addition", i), "U computation")).b
                             = Sum(SelectedOf(i))
               /\ ConNamed(Path(Step("selection", i), "x' computation")).a
                      = <<<<1, BaseOf(i).x>>>>
               /\ ConNamed(Path(Step("selection", i), "x' computation")).b
                      = BoolLC(Booleans(inp.by, 2)[i + 1], 1)
               /\ <<Val(cs, BaseOf(i).x), Val(cs, BaseOf(i).y)>>
                      = RefEdwardsMul(2 ^ i, inp.p1)
        /\ Pt(res.x, res.y) = ResultOf(Len(inp.by) - 1)

C18_Witness ==
    /\ Done("mul")
    /\ Len(inp.by) = 3
    /\ ~inp.by[1].value /\ ~inp.by[2].value /\ inp.by[3].value
    /\ res.status = "Ok"
    /\ <<Val(cs, SelectedOf(1).x), Val(cs, SelectedOf(1).y)>> = Neutral
    /\ <<Val(cs, BaseOf(2).x), Val(cs, BaseOf(2).y)>> \notin {Neutral, inp.p1}
    /\ Len(EmittedNames) = 30

(***************************************************************************)
(* The steps of fixed_base_multiplication as the constraint system records *)
(* them, windows counted from 0.                                           *)
(***************************************************************************)
LookupNames(ns) ==
    <<Path(ns, "precomp/and constraint"),
      Path(ns, "x-coordinate lookup"),
      Path(ns, "y-coordinate lookup")>>

\* window table lookup i, then for i > 0 addition i, for i = from .. n-1.
RECURSIVE ExpectedFixedNames(_, _)
ExpectedFixedNames(n, from) ==
    IF from >= n THEN << >>
    ELSE LookupNames("multiplication/window table lookup " \o ToString(from))
             \o (IF from > 0
                 THEN AddNames("multiplication/addition " \o ToString(from))
                 ELSE << >>)
             \o ExpectedFixedNames(n, from + 1)

\* The variables a constraint reads.
VarsOf(k) ==
    {k.a[j][2] : j \in 1 .. Len(k.a)} \cup {k.b[j][2] : j \in 1 .. Len(k.b)}
        \cup {k.c[j][2] : j \in 1 .. Len(k.c)}

\* The bits past the last window table: the test allocates bit k as variable k.
SurplusBits == (3 * NumWindows + 1) .. Len(inp.by)

(***************************************************************************)
(* C19: fixed_base_multiplication pairs the i-th 3-bit chunk with the i-th *)
(* window table and stops at the shorter of the two sequences: when the    *)
(* bit sequence has more chunks than the generator has window tables, the  *)
(* surplus high-order chunks are ignored with no error, no lookup and no   *)
(* constraint, and the returned point is the multiple for the truncated    *)
(* scalar only.                                                            *)
(***************************************************************************)
C19_SurplusChunksIgnored ==
    (Done("fixed") /\ Len(inp.by) % 3 = 0 /\ Len(inp.by) > 3 * NumWindows) =>
        /\ res.status = "Ok"
        /\ ResPoint = RefEdwardsMul(Scalar(SubSeq(inp.by, 1, 3 * NumWindows)), inp.base)
        /\ EmittedNames = ExpectedFixedNames(NumWindows, 0)
        /\ Len(cs.vars) = Len(inp.by) + 3 * NumWindows + 6 * (NumWindows - 1)
        /\ \A i \in (Len(HarnessCS(inp).cons) + 1) .. Len(cs.cons) :
               VarsOf(cs.cons[i]) \cap SurplusBits = {}
        /\ \A i \in 0 .. (NumWindows - 1) :
               LookedUp(i) = RefEdwardsMul(ChunkValue(i), WindowBase(inp.base, i))
        /\ IsSatisfied(cs)

C19_Witness ==
    /\ Done("fixed")
    /\ Len(inp.by) = 3 * (NumWindows + 1)
    /\ inp.by[Len(inp.by)].value
    /\ res.status = "Ok"
    /\ ResPoint # RefEdwardsMul(Scalar(inp.by), inp.base)
    /\ ResPoint = RefEdwardsMul(Scalar(SubSeq(inp.by, 1, 3 * NumWindows)), inp.base)

====
